---- MODULE Spec2Model ----
(***************************************************************************)
(* Model of pgcat's admin surface (src/src/admin.rs): the decode and       *)
(* dispatch of handle_admin and the handlers show_stats, reload,           *)
(* show_config, show_databases, ignore_set and the unsupported-query path, *)
(* run by concurrent client tasks against the process-wide config.         *)
(***************************************************************************)
EXTENDS Integers, Sequences, FiniteSets, TLC

(***************************************************************************)
(* Bounds of the model.                                                    *)
(***************************************************************************)
MaxRawLen == 2      \* raw byte strings of every length up to this are fed in
MaxReloads == 2     \* successful reloads (config versions) per behaviour
MaxOpen == 1        \* open backend connections reported by a pool

(***************************************************************************)
(* Bytes and text.  A message is a sequence of bytes 0..255; a String is a *)
(* sequence of Unicode code points.                                        *)
(***************************************************************************)
TagQ == 81                      \* 'Q'
ReplacementChar == 65533        \* U+FFFD, what from_utf8_lossy substitutes

\* i32 read big-endian from four bytes (Buf::get_i32)
GetI32(b0, b1, b2, b3) ==
    (IF b0 >= 128 THEN b0 - 256 ELSE b0) * 16777216 + b1 * 65536 + b2 * 256 + b3

\* four big-endian bytes of a non-negative length below 2^31
PutI32(n) ==
    << (n \div 16777216) % 256, (n \div 65536) % 256, (n \div 256) % 256, n % 256 >>

IsCont(b) == b >= 128 /\ b <= 191

\* byte at 1-based position i, or 0 past the end (safe_get of the lossy decoder)
SafeGet(bs, i) == IF i <= Len(bs) THEN bs[i] ELSE 0

\* Length of the well-formed UTF-8 sequence starting at position i, or 0 when
\* the bytes there are not one; BadLen is then the length of the invalid chunk.
SecondOk(b0, b1) ==
    \/ b0 = 224 /\ b1 >= 160 /\ b1 <= 191
    \/ b0 >= 225 /\ b0 <= 236 /\ IsCont(b1)
    \/ b0 = 237 /\ b1 >= 128 /\ b1 <= 159
    \/ b0 >= 238 /\ b0 <= 239 /\ IsCont(b1)
    \/ b0 = 240 /\ b1 >= 144 /\ b1 <= 191
    \/ b0 >= 241 /\ b0 <= 243 /\ IsCont(b1)
    \/ b0 = 244 /\ b1 >= 128 /\ b1 <= 143

Utf8Width(b0) ==
    IF b0 < 128 THEN 1
    ELSE IF b0 >= 194 /\ b0 <= 223 THEN 2
    ELSE IF b0 >= 224 /\ b0 <= 239 THEN 3
    ELSE IF b0 >= 240 /\ b0 <= 244 THEN 4
    ELSE 0

GoodLen(bs, i) ==
    LET b0 == bs[i]
        w == Utf8Width(b0)
    IN  IF w = 1 THEN 1
        ELSE IF w = 2 THEN (IF IsCont(SafeGet(bs, i + 1)) THEN 2 ELSE 0)
        ELSE IF w = 3 THEN
            (IF SecondOk(b0, SafeGet(bs, i + 1)) /\ IsCont(SafeGet(bs, i + 2))
             THEN 3 ELSE 0)
        ELSE IF w = 4 THEN
            (IF SecondOk(b0, SafeGet(bs, i + 1)) /\ IsCont(SafeGet(bs, i + 2))
                /\ IsCont(SafeGet(bs, i + 3))
             THEN 4 ELSE 0)
        ELSE 0

BadLen(bs, i) ==
    LET b0 == bs[i]
        w == Utf8Width(b0)
    IN  IF w <= 1 THEN 1
        ELSE IF w = 2 THEN 1
        ELSE IF ~SecondOk(b0, SafeGet(bs, i + 1)) THEN 1
        ELSE IF ~IsCont(SafeGet(bs, i + 2)) THEN 2
        ELSE 3

CodePoint(bs, i, n) ==
    IF n = 1 THEN bs[i]
    ELSE IF n = 2 THEN (bs[i] - 192) * 64 + (bs[i + 1] - 128)
    ELSE IF n = 3 THEN (bs[i] - 224) * 4096 + (bs[i + 1] - 128) * 64 + (bs[i + 2] - 128)
    ELSE (bs[i] - 240) * 262144 + (bs[i + 1] - 128) * 4096
         + (bs[i + 2] - 128) * 64 + (bs[i + 3] - 128)

RECURSIVE LossyFrom(_, _)
LossyFrom(bs, i) ==
    IF i > Len(bs) THEN << >>
    ELSE LET n == GoodLen(bs, i)
         IN  IF n > 0 THEN << CodePoint(bs, i, n) >> \o LossyFrom(bs, i + n)
             ELSE << ReplacementChar >> \o LossyFrom(bs, i + BadLen(bs, i))

\* String::from_utf8_lossy(bytes).to_string()
FromUtf8Lossy(bs) == LossyFrom(bs, 1)

RECURSIVE ValidFrom(_, _)
ValidFrom(bs, i) ==
    IF i > Len(bs) THEN TRUE
    ELSE LET n == GoodLen(bs, i)
         IN  n > 0 /\ ValidFrom(bs, i + n)

\* whether the bytes are validly encoded text (what str::from_utf8 accepts)
ValidUtf8(bs) == ValidFrom(bs, 1)

\* str::to_ascii_uppercase: only a..z change
ToAsciiUppercase(s) ==
    [ i \in 1..Len(s) |-> IF s[i] >= 97 /\ s[i] <= 122 THEN s[i] - 32 ELSE s[i] ]

\* str::starts_with
StartsWith(s, p) == Len(s) >= Len(p) /\ SubSeq(s, 1, Len(p)) = p


(***************************************************************************)
(* Text literals.  Str turns a tuple of one-character strings into the     *)
(* code points of that text.                                               *)
(***************************************************************************)
UpperLetters ==
    << "A", "B", "C", "D", "E", "F", "G", "H", "I", "J", "K", "L", "M",
       "N", "O", "P", "Q", "R", "S", "T", "U", "V", "W", "X", "Y", "Z" >>

LowerLetters ==
    << "a", "b", "c", "d", "e", "f", "g", "h", "i", "j", "k", "l", "m",
       "n", "o", "p", "q", "r", "s", "t", "u", "v", "w", "x", "y", "z" >>

Code(ch) ==
    IF \E i \in 1..26 : UpperLetters[i] = ch
    THEN 64 + (CHOOSE i \in 1..26 : UpperLetters[i] = ch)
    ELSE IF \E i \in 1..26 : LowerLetters[i] = ch
    THEN 96 + (CHOOSE i \in 1..26 : LowerLetters[i] = ch)
    ELSE CASE ch = " " -> 32
           [] ch = "1" -> 49
           [] ch = ";" -> 59
           [] ch = "=" -> 61

Str(s) == [ i \in 1..Len(s) |-> Code(s[i]) ]

\* the command prefixes of handle_admin
\* Variant: the first check looks for "SHOW" alone.
ShowPrefixShort == Str(<< "S", "H", "O", "W" >>)

ShowStatsPrefix == Str(<< "S", "H", "O", "W", " ", "S", "T", "A", "T", "S" >>)
ReloadPrefix == Str(<< "R", "E", "L", "O", "A", "D" >>)
ShowConfigPrefix == Str(<< "S", "H", "O", "W", " ", "C", "O", "N", "F", "I", "G" >>)
ShowDatabasesPrefix ==
    Str(<< "S", "H", "O", "W", " ", "D", "A", "T", "A", "B", "A", "S", "E", "S" >>)
SetPrefix == Str(<< "S", "E", "T", " " >>)

(***************************************************************************)
(* handle_admin: decode.                                                   *)
(***************************************************************************)
\* A usize larger than the length of every buffer: what `len as usize` of a
\* negative i32 (sign-extended) and the wrapped `len - 5` of 0 <= len < 5 are.
BeyondAnyBuffer == 2147483647

\* `len - 5` on usize, len being `query.get_i32() as usize`
SliceEnd(n) == IF n >= 5 THEN n - 5 ELSE BeyondAnyBuffer

\* Outcome of lines 19-28 on the message bytes: a ProtocolSyncError, a panic
\* (get_u8 / get_i32 on too few bytes, the subtraction overflow of a debug
\* build, the slice index past the end), or the uppercased query text.
\* Variant: the length is read before the tag is looked at.
DecodeLengthFirst(bytes) ==
    IF Len(bytes) < 5 THEN [kind |-> "panic"]
    ELSE IF bytes[1] # TagQ THEN [kind |-> "ProtocolSyncError"]
    ELSE LET n == GetI32(bytes[2], bytes[3], bytes[4], bytes[5])
             rest == SubSeq(bytes, 6, Len(bytes))
             end == SliceEnd(n)
         IN  IF end > Len(rest) THEN [kind |-> "panic"]
             ELSE [kind |-> "query",
                   raw |-> SubSeq(rest, 1, end),
                   text |-> ToAsciiUppercase(FromUtf8Lossy(SubSeq(rest, 1, end)))]

\* Variant: String::from_utf8 with `?` in place of from_utf8_lossy.
DecodeStrict(bytes) ==
    IF Len(bytes) < 1 THEN [kind |-> "panic"]
    ELSE IF bytes[1] # TagQ THEN [kind |-> "ProtocolSyncError"]
    ELSE IF Len(bytes) < 5 THEN [kind |-> "panic"]
    ELSE LET n == GetI32(bytes[2], bytes[3], bytes[4], bytes[5])
             rest == SubSeq(bytes, 6, Len(bytes))
             end == SliceEnd(n)
         IN  IF end > Len(rest) THEN [kind |-> "panic"]
             ELSE IF ~ValidUtf8(SubSeq(rest, 1, end)) THEN [kind |-> "QueryDecodeError"]
             ELSE [kind |-> "query",
                   raw |-> SubSeq(rest, 1, end),
                   text |-> ToAsciiUppercase(FromUtf8Lossy(SubSeq(rest, 1, end)))]

Decode(bytes) ==
    IF Len(bytes) < 1 THEN [kind |-> "panic"]
    ELSE IF bytes[1] # TagQ THEN [kind |-> "ProtocolSyncError"]
    ELSE IF Len(bytes) < 5 THEN [kind |-> "panic"]
    ELSE LET n == GetI32(bytes[2], bytes[3], bytes[4], bytes[5])
             rest == SubSeq(bytes, 6, Len(bytes))
             end == SliceEnd(n)
         IN  IF end > Len(rest) THEN [kind |-> "panic"]
             ELSE [kind |-> "query",
                   raw |-> SubSeq(rest, 1, end),
                   text |-> ToAsciiUppercase(FromUtf8Lossy(SubSeq(rest, 1, end)))]

(***************************************************************************)
(* handle_admin: the if / else-if chain over the uppercased text.          *)
(***************************************************************************)
\* Variant: the text is compared with the command instead of its prefix.
DispatchExact(query) ==
    IF query = ShowStatsPrefix THEN "show_stats"
    ELSE IF query = ReloadPrefix THEN "reload"
    ELSE IF query = ShowConfigPrefix THEN "show_config"
    ELSE IF query = ShowDatabasesPrefix THEN "show_databases"
    ELSE IF query = SetPrefix THEN "ignore_set"
    ELSE "error_response"

\* Variant: the final else answers like SET.
DispatchElseSet(query) ==
    IF StartsWith(query, ShowStatsPrefix) THEN "show_stats"
    ELSE IF StartsWith(query, ReloadPrefix) THEN "reload"
    ELSE IF StartsWith(query, ShowConfigPrefix) THEN "show_config"
    ELSE IF StartsWith(query, ShowDatabasesPrefix) THEN "show_databases"
    ELSE "ignore_set"

Dispatch(query) ==
    IF StartsWith(query, ShowStatsPrefix) THEN "show_stats"
    ELSE IF StartsWith(query, ReloadPrefix) THEN "reload"
    ELSE IF StartsWith(query, ShowConfigPrefix) THEN "show_config"
    ELSE IF StartsWith(query, ShowDatabasesPrefix) THEN "show_databases"
    ELSE IF StartsWith(query, SetPrefix) THEN "ignore_set"
    ELSE "error_response"

(***************************************************************************)
(* The configuration.  The file on disk holds one of Files whenever parse  *)
(* reads it; parse turns a valid file into a Config snapshot.  Versions    *)
(* number the snapshots in the order they were published.                  *)
(***************************************************************************)
Primary == "Primary"
Replica == "Replica"

Server(h, r) == [host |-> h, port |-> 5432, role |-> r]

FileA ==
    [valid |-> TRUE,
     shards |-> << [database |-> "shard0",
                    servers |-> << Server("10.0.0.1", Primary),
                                   Server("10.0.0.2", Replica) >>],
                   [database |-> "shard1",
                    servers |-> << Server("10.0.0.3", Replica),
                                   Server("10.0.0.4", Primary),
                                   Server("10.0.0.5", Replica) >>] >>,
     general |-> [host |-> "0.0.0.0", port |-> 6432, connect_timeout |-> 5000,
                  pool_size |-> 15, pool_mode |-> "transaction"],
     user |-> [name |-> "sharding_user"]]

FileB ==
    [valid |-> TRUE,
     shards |-> << [database |-> "main",
                    servers |-> << Server("10.0.1.1", Primary) >>] >>,
     general |-> [host |-> "0.0.0.0", port |-> 6432, connect_timeout |-> 1000,
                  pool_size |-> 20, pool_mode |-> "session"],
     user |-> [name |-> "app_user"]]

FileBad == [valid |-> FALSE]

Files == {FileA, FileB, FileBad}

ConfigPath == "pgcat.toml"

\* shard.to_string(): the key of shard number i in Config.shards
ShardKey(i) == ToString(i)

\* The Config that parse builds from a valid file: shards is the map from
\* the shard's key to its section.
MkConfig(f, v) ==
    [ver |-> v,
     path |-> ConfigPath,
     shards |-> [k \in {ShardKey(i - 1) : i \in 1..Len(f.shards)} |->
                    LET i == CHOOSE j \in 1..Len(f.shards) : ShardKey(j - 1) = k
                    IN  f.shards[i]],
     general |-> f.general,
     user |-> f.user]

\* The pool built from a Config: per shard, the addresses of its servers in
\* the order of the shard's server list.
Topology(cfg) ==
    [ver |-> cfg.ver,
     shards |-> [i \in 1..Cardinality(DOMAIN cfg.shards) |->
                    cfg.shards[ShardKey(i - 1)].servers]]

NoConfig == [ver |-> -1]
NoPool == [ver |-> -1]

\* the counters of the stats collector
StatsValues ==
    { << >>,
      [n \in {"total_xact_count", "total_query_count"} |->
          IF n = "total_xact_count" THEN 7 ELSE 12] }

(***************************************************************************)
(* State.                                                                  *)
(***************************************************************************)
Conns == {"c1", "c2"}

VARIABLES
    config,     \* the current Config snapshot (what get_config() loads)
    pool,       \* the current topology, built from the current snapshot
    stats,      \* what get_stats() returns
    okVer,      \* highest version published by a RELOAD that returned Ok
    conn,       \* per connection: "awaiting" | "handling" | "closed" | "crashed"
    msg,        \* per connection: the bytes of the message being handled
    pc,         \* per connection: position inside the handler
    hpool,      \* per connection: the `pool` argument of handle_admin
    local,      \* per connection: the handler's `config` local
    wire,       \* per connection: the messages written in this exchange
    writes,     \* per connection: calls of write_all_half in this exchange
    result      \* per connection: what handle_admin returned

vars == << config, pool, stats, okVer,
           conn, msg, pc, hpool, local, wire, writes, result >>

globals == << config, pool, stats, okVer >>

Init ==
    /\ config = MkConfig(FileA, 0)
    /\ pool = Topology(MkConfig(FileA, 0))
    /\ stats \in StatsValues
    /\ okVer = 0
    /\ conn = [c \in Conns |-> "awaiting"]
    /\ msg = [c \in Conns |-> << >>]
    /\ pc = [c \in Conns |-> "idle"]
    /\ hpool = [c \in Conns |-> NoPool]
    /\ local = [c \in Conns |-> NoConfig]
    /\ wire = [c \in Conns |-> << >>]
    /\ writes = [c \in Conns |-> 0]
    /\ result = [c \in Conns |-> "none"]

(***************************************************************************)
(* The messages a handler puts into its response buffer.                   *)
(***************************************************************************)
RowDescription(columns) == [t |-> "RowDescription", columns |-> columns]
DataRow(values) == [t |-> "DataRow", values |-> values]
CommandComplete(tag) == [t |-> "CommandComplete", tag |-> tag]
\* put_u8(b'Z'); put_i32(5); put_u8(b'I')
ReadyForQuery == [t |-> "ReadyForQuery", len |-> 5, status |-> "I"]
ErrorResponse(message) == [t |-> "ErrorResponse", message |-> message]

UnsupportedMessage == "Unsupported query against the admin database"

\* messages::custom_protocol_response_ok(stream, tag)
CustomProtocolResponseOk(tag) == << CommandComplete(tag), ReadyForQuery >>

\* messages::error_response(stream, message)
ErrorResponseBytes(message) == << ErrorResponse(message), ReadyForQuery >>

(***************************************************************************)
(* The messages clients send.                                              *)
(***************************************************************************)
\* a Simple Query frame: 'Q', the length (itself, the text, the NUL), the
\* text, NUL
Frame(text) == << TagQ >> \o PutI32(Len(text) + 5) \o text \o << 0 >>

CommandTexts ==
    { Str(<< "S", "H", "O", "W", " ", "S", "T", "A", "T", "S" >>),
      Str(<< "r", "e", "l", "o", "a", "d", ";" >>),
      Str(<< "S", "h", "o", "w", " ", "C", "o", "n", "f", "i", "g" >>),
      Str(<< "S", "H", "O", "W", " ", "D", "A", "T", "A", "B", "A", "S", "E", "S", ";" >>),
      Str(<< "s", "e", "t", " ", "a", "=", "1" >>),
      Str(<< "S", "E", "L", "E", "C", "T", " ", "1" >>) }

\* texts around the edges of the prefix match: a prefix cut short, SET
\* without its space, leading whitespace, one command followed by another,
\* the empty text
EdgeTexts ==
    { << >>,
      Str(<< "S", "E", "T" >>),
      Str(<< "S", "H", "O", "W" >>),
      Str(<< "S", "H", "O", "W", " ", "S", "T", "A", "T" >>),
      Str(<< " ", "R", "E", "L", "O", "A", "D" >>),
      Str(<< "R", "E", "L", "O", "A", "D", " ", "S", "E", "T", " " >>),
      Str(<< "S", "E", "T", " ", "R", "E", "L", "O", "A", "D" >>),
      Str(<< "S", "H", "O", "W", " ", "S", "T", "A", "T", "S",
             "S", "H", "O", "W", " ", "C", "O", "N", "F", "I", "G" >>) }

\* payloads that are not all ASCII: a two-byte character (valid), a lone
\* 0xFF, a truncated two-byte character, an overlong encoding
NonAsciiTexts ==
    { Str(<< "S", "E", "T", " " >>) \o << 195, 169 >>,
      Str(<< "R", "E", "L", "O", "A", "D" >>) \o << 255 >>,
      << 255 >> \o Str(<< "R", "E", "L", "O", "A", "D" >>),
      Str(<< "S", "H", "O", "W", " ", "S", "T", "A", "T", "S" >>) \o << 195 >>,
      << 192, 175 >> }

\* frames whose declared length disagrees with the bytes that follow
BadFrames ==
    { << TagQ, 0, 0, 0 >>,
      << TagQ, 0, 0, 0, 0 >>,
      << TagQ, 0, 0, 0, 4, 0 >>,
      << TagQ, 0, 0, 0, 5 >>,
      << TagQ, 255, 255, 255, 255, 0 >>,
      << TagQ, 128, 0, 0, 0, 0 >>,
      << TagQ, 0, 0, 0, 12 >> \o Str(<< "R", "E", "L" >>) \o << 0 >>,
      << TagQ, 0, 0, 0, 11 >> \o Str(<< "R", "E", "L", "O", "A", "D", "X", "Y" >>) \o << 0 >>,
      << 88, 0, 0, 0, 11 >> \o Str(<< "R", "E", "L", "O", "A", "D" >>) \o << 0 >> }

\* every byte string of length at most MaxRawLen over RawBytes
RawBytes == {0, TagQ, 88}
RawStrings == UNION { [1..n -> RawBytes] : n \in 0..MaxRawLen }

CommandFrames == { Frame(t) : t \in CommandTexts }

Inputs ==
    CommandFrames \cup { Frame(t) : t \in EdgeTexts \cup NonAsciiTexts }
    \cup BadFrames \cup RawStrings

\* the decode of each input
Decoded == [bytes \in Inputs |-> Decode(bytes)]

(***************************************************************************)
(* What the caller of handle_admin does with the connection afterwards.    *)
(***************************************************************************)
AfterReturn(r) ==
    IF r = "Ok" THEN "awaiting"
    ELSE IF r = "panic" THEN "crashed"
    ELSE "closed"

\* handle_admin returns r on connection c, having written `out` in
\* `n` calls of write_all_half
Return(c, r, out, n) ==
    /\ result' = [result EXCEPT ![c] = r]
    /\ conn' = [conn EXCEPT ![c] = AfterReturn(r)]
    /\ pc' = [pc EXCEPT ![c] = "idle"]
    /\ wire' = [wire EXCEPT ![c] = out]
    /\ writes' = [writes EXCEPT ![c] = n]
    /\ hpool' = [hpool EXCEPT ![c] = NoPool]
    /\ local' = [local EXCEPT ![c] = NoConfig]

(***************************************************************************)
(* handle_admin, lines 14-50: decode the message and enter the handler.    *)
(***************************************************************************)
\* Variant: a connection whose last exchange was a SET stays in a session
\* mode in which every later query is absorbed like a SET.
HandleAdminSticky(c, bytes) ==
    /\ conn[c] = "awaiting"
    /\ msg' = [msg EXCEPT ![c] = bytes]
    /\ UNCHANGED globals
    /\ LET d == Decoded[bytes]
           h == IF d.kind # "query" THEN "none"
                ELSE IF wire[c] = CustomProtocolResponseOk("SET") THEN "ignore_set"
                ELSE Dispatch(d.text)
       IN  IF d.kind # "query"
           THEN Return(c, d.kind, << >>, 0)
           ELSE /\ conn' = [conn EXCEPT ![c] = "handling"]
                /\ pc' = [pc EXCEPT ![c] = h]
                /\ hpool' = [hpool EXCEPT ![c] =
                      IF h = "show_databases" THEN pool ELSE NoPool]
                /\ result' = [result EXCEPT ![c] = "none"]
                /\ wire' = [wire EXCEPT ![c] = << >>]
                /\ writes' = [writes EXCEPT ![c] = 0]
                /\ UNCHANGED local

\* Only show_databases is passed the pool (line 43); the argument is kept
\* for that handler alone.
HandleAdmin(c, bytes) ==
    /\ conn[c] = "awaiting"
    /\ msg' = [msg EXCEPT ![c] = bytes]
    /\ UNCHANGED globals
    /\ LET d == Decoded[bytes]
       IN  IF d.kind # "query"
           THEN Return(c, d.kind, << >>, 0)
           ELSE /\ conn' = [conn EXCEPT ![c] = "handling"]
                /\ pc' = [pc EXCEPT ![c] = Dispatch(d.text)]
                /\ hpool' = [hpool EXCEPT ![c] =
                      IF Dispatch(d.text) = "show_databases" THEN pool ELSE NoPool]
                /\ result' = [result EXCEPT ![c] = "none"]
                /\ wire' = [wire EXCEPT ![c] = << >>]
                /\ writes' = [writes EXCEPT ![c] = 0]
                /\ UNCHANGED local

(***************************************************************************)
(* show_stats, lines 201-240.                                              *)
(***************************************************************************)
StatsColumns ==
    << << "database", "Text" >>,
       << "total_xact_count", "Numeric" >>, << "total_query_count", "Numeric" >>,
       << "total_received", "Numeric" >>, << "total_sent", "Numeric" >>,
       << "total_xact_time", "Numeric" >>, << "total_query_time", "Numeric" >>,
       << "total_wait_time", "Numeric" >>, << "avg_xact_count", "Numeric" >>,
       << "avg_query_count", "Numeric" >>, << "avg_recv", "Numeric" >>,
       << "avg_sent", "Numeric" >>, << "avg_xact_time", "Numeric" >>,
       << "avg_query_time", "Numeric" >>, << "avg_wait_time", "Numeric" >> >>

\* Variant: a counter the snapshot does not hold is shown as an empty text.
StatsCellNoDefault(st, name) == IF name \in DOMAIN st THEN ToString(st[name]) ELSE ""

\* stats.get(column.0).unwrap_or(&0).to_string()
StatsCell(st, name) == IF name \in DOMAIN st THEN ToString(st[name]) ELSE "0"

StatsRow(st) ==
    << "all shards" >> \o
    [i \in 1..(Len(StatsColumns) - 1) |-> StatsCell(st, StatsColumns[i + 1][1])]

ShowStatsResponse(st) ==
    << RowDescription(StatsColumns), DataRow(StatsRow(st)),
       CommandComplete("SHOW"), ReadyForQuery >>

\* Variant: the counters are cleared once they have been reported.
ShowStatsResets(c) ==
    /\ pc[c] = "show_stats"
    /\ Return(c, "Ok", ShowStatsResponse(stats), 1)
    /\ stats' = << >>
    /\ UNCHANGED << config, pool, okVer, msg >>

ShowStats(c) ==
    /\ pc[c] = "show_stats"
    /\ Return(c, "Ok", ShowStatsResponse(stats), 1)
    /\ UNCHANGED << globals, msg >>

(***************************************************************************)
(* ignore_set, lines 127-129, and the unsupported-query branch, line 48.   *)
(***************************************************************************)
\* Variant: the completion carries the tag of the SHOW commands.
IgnoreSetAsShow(c) ==
    /\ pc[c] = "ignore_set"
    /\ Return(c, "Ok", CustomProtocolResponseOk("SHOW"), 1)
    /\ UNCHANGED << globals, msg >>

IgnoreSet(c) ==
    /\ pc[c] = "ignore_set"
    /\ Return(c, "Ok", CustomProtocolResponseOk("SET"), 1)
    /\ UNCHANGED << globals, msg >>

UnsupportedQuery(c) ==
    /\ pc[c] = "error_response"
    /\ Return(c, "Ok", ErrorResponseBytes(UnsupportedMessage), 1)
    /\ UNCHANGED << globals, msg >>

(***************************************************************************)
(* The handler's snapshot of the configuration:                            *)
(*     let guard = get_config(); let config = &*guard.clone(); drop(guard) *)
(***************************************************************************)
\* Variant: the shards are taken from the Config the process started with.
TornConfigClone == [config EXCEPT !.shards = MkConfig(FileA, 0).shards]

GetConfigClone == config

(***************************************************************************)
(* reload, lines 132-155.                                                  *)
(***************************************************************************)
Max(a, b) == IF a >= b THEN a ELSE b

\* parse(&path) reads and validates the file and, when it is valid, stores
\* the new Config as the current one.  A failure returns through `?`.
\* Variant: the ReadyForQuery bytes are left out.
ReloadResponseNoReady == << CommandComplete("RELOAD") >>

ReloadResponse == << CommandComplete("RELOAD"), ReadyForQuery >>

\* Variant: a parse failure is answered with an ErrorResponse and Ok.
ReloadParseRepliesOnError(c) ==
    /\ pc[c] = "reload"
    /\ \E f \in Files :
          \/ /\ ~f.valid
             /\ Return(c, "Ok", ErrorResponseBytes("reload failed"), 1)
             /\ UNCHANGED << globals, msg >>
          \/ /\ f.valid
             /\ config.ver < MaxReloads
             /\ config' = MkConfig(f, config.ver + 1)
             /\ pool' = Topology(MkConfig(f, config.ver + 1))
             /\ local' = [local EXCEPT ![c] = MkConfig(f, config.ver + 1)]
             /\ pc' = [pc EXCEPT ![c] = "reload_reply"]
             /\ UNCHANGED << stats, okVer, conn, msg, hpool, wire, writes, result >>

\* Variant: the result of parse is dropped (no `?`).
ReloadParseIgnoresError(c) ==
    /\ pc[c] = "reload"
    /\ \E f \in Files :
          \/ /\ ~f.valid
             /\ pc' = [pc EXCEPT ![c] = "reload_reply"]
             /\ UNCHANGED << globals, conn, msg, hpool, local, wire, writes, result >>
          \/ /\ f.valid
             /\ config.ver < MaxReloads
             /\ config' = MkConfig(f, config.ver + 1)
             /\ pool' = Topology(MkConfig(f, config.ver + 1))
             /\ local' = [local EXCEPT ![c] = MkConfig(f, config.ver + 1)]
             /\ pc' = [pc EXCEPT ![c] = "reload_reply"]
             /\ UNCHANGED << stats, okVer, conn, msg, hpool, wire, writes, result >>

ReloadParse(c) ==
    /\ pc[c] = "reload"
    /\ \E f \in Files :
          \/ /\ ~f.valid
             /\ Return(c, "ConfigError", << >>, 0)
             /\ UNCHANGED << globals, msg >>
          \/ /\ f.valid
             /\ config.ver < MaxReloads
             /\ config' = MkConfig(f, config.ver + 1)
             /\ pool' = Topology(MkConfig(f, config.ver + 1))
             /\ local' = [local EXCEPT ![c] = MkConfig(f, config.ver + 1)]
             /\ pc' = [pc EXCEPT ![c] = "reload_reply"]
             /\ UNCHANGED << stats, okVer, conn, msg, hpool, wire, writes, result >>

\* let config = get_config(); config.show(); then the response
ReloadReply(c) ==
    /\ pc[c] = "reload_reply"
    /\ okVer' = Max(okVer, local[c].ver)
    /\ Return(c, "Ok", ReloadResponse, 1)
    /\ UNCHANGED << config, pool, stats, msg >>

(***************************************************************************)
(* show_config, lines 157-198.                                             *)
(***************************************************************************)
ConfigColumns ==
    << << "key", "Text" >>, << "value", "Text" >>,
       << "default", "Text" >>, << "changeable", "Text" >> >>

Immutables == {"host", "port", "connect_timeout"}

\* HashMap<String, String>::from(&Config)
Flatten(cfg) ==
    [k \in {"host", "port", "connect_timeout", "pool_size"} |->
        IF k = "host" THEN cfg.general.host
        ELSE IF k = "port" THEN ToString(cfg.general.port)
        ELSE IF k = "connect_timeout" THEN ToString(cfg.general.connect_timeout)
        ELSE ToString(cfg.general.pool_size)]

\* Variant: the two answers are exchanged.
ChangeableInverted(key) == IF key \in Immutables THEN "yes" ELSE "no"

\* immutables.iter().filter(|col| *col == &key).count() == 1
Changeable(key) == IF key \in Immutables THEN "no" ELSE "yes"

ConfigRow(key, value) == << key, value, "-", Changeable(key) >>

\* the orders in which a HashMap with these keys may be iterated
Orders(keys) ==
    { o \in [1..Cardinality(keys) -> keys] :
        \A i, j \in 1..Cardinality(keys) : i # j => o[i] # o[j] }

ShowConfigResponse(map, order) ==
    << RowDescription(ConfigColumns) >>
    \o [i \in 1..Len(order) |-> DataRow(ConfigRow(order[i], map[order[i]]))]
    \o << CommandComplete("SHOW"), ReadyForQuery >>

ShowConfigLoad(c) ==
    /\ pc[c] = "show_config"
    /\ local' = [local EXCEPT ![c] = GetConfigClone]
    /\ pc' = [pc EXCEPT ![c] = "show_config_rows"]
    /\ UNCHANGED << globals, conn, msg, hpool, wire, writes, result >>

ShowConfigWrite(c) ==
    /\ pc[c] = "show_config_rows"
    /\ \E order \in Orders(DOMAIN Flatten(local[c])) :
          Return(c, "Ok", ShowConfigResponse(Flatten(local[c]), order), 1)
    /\ UNCHANGED << globals, msg >>

(***************************************************************************)
(* show_databases, lines 53-123.                                           *)
(***************************************************************************)
DatabasesColumns ==
    << << "name", "Text" >>, << "host", "Text" >>, << "port", "Text" >>,
       << "database", "Text" >>, << "force_user", "Text" >>,
       << "pool_size", "Int4" >>, << "min_pool_size", "Int4" >>,
       << "reserve_pool", "Int4" >>, << "pool_mode", "Text" >>,
       << "max_connections", "Int4" >>, << "current_connections", "Int4" >>,
       << "paused", "Int4" >>, << "disabled", "Int4" >> >>

\* pool.shards(), pool.servers(shard), pool.address(shard, server), 0-based
PoolShards(p) == Len(p.shards)
PoolServers(p, shard) == Len(p.shards[shard + 1])
PoolAddress(p, shard, server) == p.shards[shard + 1][server + 1]

\* Variant: the counter is advanced for every server, not only for replicas.
ReplicaCountEveryServer(p, shard, server) == server

\* replica_count when the loop reaches `server`
ReplicaCount(p, shard, server) ==
    Cardinality({ k \in 0..(server - 1) : PoolAddress(p, shard, k).role = Replica })

ServerName(p, shard, server) ==
    IF PoolAddress(p, shard, server).role = Primary
    THEN "shard_" \o ToString(shard) \o "_primary"
    ELSE "shard_" \o ToString(shard) \o "_replica_"
         \o ToString(ReplicaCount(p, shard, server))

\* Variant: the value of the reserve_pool column is left out.
DatabaseRowShort(p, cfg, shard, server, connections) ==
    << ServerName(p, shard, server),
       PoolAddress(p, shard, server).host,
       ToString(PoolAddress(p, shard, server).port),
       cfg.shards[ShardKey(shard)].database,
       cfg.user.name,
       ToString(cfg.general.pool_size),
       "0",
       cfg.general.pool_mode,
       ToString(cfg.general.pool_size),
       ToString(connections),
       "0",
       "0" >>

DatabaseRow(p, cfg, shard, server, connections) ==
    << ServerName(p, shard, server),
       PoolAddress(p, shard, server).host,
       ToString(PoolAddress(p, shard, server).port),
       cfg.shards[ShardKey(shard)].database,
       cfg.user.name,
       ToString(cfg.general.pool_size),
       "0",
       "0",
       cfg.general.pool_mode,
       ToString(cfg.general.pool_size),
       ToString(connections),
       "0",
       "0" >>

ShardRows(p, cfg, shard, connections) ==
    [j \in 1..PoolServers(p, shard) |->
        DataRow(DatabaseRow(p, cfg, shard, j - 1, connections))]

RECURSIVE RowsFrom(_, _, _, _)
RowsFrom(p, cfg, shard, connections) ==
    IF shard >= PoolShards(p) THEN << >>
    ELSE ShardRows(p, cfg, shard, connections)
         \o RowsFrom(p, cfg, shard + 1, connections)

\* config.shards[&shard.to_string()] panics on a key the map does not hold
MissingShard(p, cfg) ==
    \E shard \in 0..(PoolShards(p) - 1) : ShardKey(shard) \notin DOMAIN cfg.shards

ShowDatabasesResponse(p, cfg, connections) ==
    << RowDescription(DatabasesColumns) >>
    \o RowsFrom(p, cfg, 0, connections)
    \o << CommandComplete("SHOW"), ReadyForQuery >>

\* Variant: the RowDescription is sent as soon as it is built, before the
\* rows are.
ShowDatabasesLoadSendsHeader(c) ==
    /\ pc[c] = "show_databases"
    /\ local' = [local EXCEPT ![c] = GetConfigClone]
    /\ pc' = [pc EXCEPT ![c] = "show_databases_rows"]
    /\ wire' = [wire EXCEPT ![c] = << RowDescription(DatabasesColumns) >>]
    /\ writes' = [writes EXCEPT ![c] = 1]
    /\ UNCHANGED << globals, conn, msg, hpool, result >>

ShowDatabasesLoad(c) ==
    /\ pc[c] = "show_databases"
    /\ local' = [local EXCEPT ![c] = GetConfigClone]
    /\ pc' = [pc EXCEPT ![c] = "show_databases_rows"]
    /\ UNCHANGED << globals, conn, msg, hpool, wire, writes, result >>

ShowDatabasesWrite(c) ==
    /\ pc[c] = "show_databases_rows"
    /\ IF MissingShard(hpool[c], local[c])
       THEN Return(c, "panic", << >>, 0)
       ELSE \E connections \in 0..MaxOpen :
               Return(c, "Ok", ShowDatabasesResponse(hpool[c], local[c], connections), 1)
    /\ UNCHANGED << globals, msg >>

(***************************************************************************)
(* The environment: the stats collector, and a client that connects again  *)
(* after its connection was closed.                                        *)
(***************************************************************************)
StatsUpdate ==
    /\ \E st \in StatsValues : st # stats /\ stats' = st
    /\ UNCHANGED << config, pool, okVer, conn, msg, pc, hpool, local, wire, writes, result >>

Reconnect(c) ==
    /\ conn[c] \in {"closed", "crashed"}
    /\ conn' = [conn EXCEPT ![c] = "awaiting"]
    /\ msg' = [msg EXCEPT ![c] = << >>]
    /\ wire' = [wire EXCEPT ![c] = << >>]
    /\ writes' = [writes EXCEPT ![c] = 0]
    /\ result' = [result EXCEPT ![c] = "none"]
    /\ UNCHANGED << globals, pc, hpool, local >>

\* one step of the task serving connection c, its messages drawn from `inputs`
Step(c, inputs) ==
    \/ \E bytes \in inputs : HandleAdmin(c, bytes)
    \/ ShowStats(c)
    \/ ReloadParse(c)
    \/ ReloadReply(c)
    \/ ShowConfigLoad(c)
    \/ ShowConfigWrite(c)
    \/ ShowDatabasesLoad(c)
    \/ ShowDatabasesWrite(c)
    \/ IgnoreSet(c)
    \/ UnsupportedQuery(c)
    \/ Reconnect(c)

\* Concurrent admin clients sending the commands.
Next ==
    \/ \E c \in Conns : Step(c, CommandFrames)
    \/ StatsUpdate

Spec == Init /\ [][Next]_vars

\* One admin client sending every message of Inputs.
NextDecode ==
    \/ Step("c1", Inputs)
    \/ StatsUpdate

SpecDecode == Init /\ [][NextDecode]_vars

(***************************************************************************)
(* Properties.                                                             *)
(***************************************************************************)
\* connection c has had the message msg[c] handed to handle_admin
Handled(c) == conn[c] = "handling" \/ result[c] # "none"

\* A frame that carries a query: tag 'Q', a declared length of at least 5,
\* and the length - 5 payload bytes present after the header.
DeclaredLen(m) == GetI32(m[2], m[3], m[4], m[5])
WellFramed(m) ==
    /\ Len(m) >= 5
    /\ m[1] = TagQ
    /\ DeclaredLen(m) >= 5
    /\ DeclaredLen(m) - 5 <= Len(m) - 5
Payload(m) == SubSeq(m, 6, DeclaredLen(m))

\* the text the dispatcher is to look at
QueryText(m) == ToAsciiUppercase(FromUtf8Lossy(Payload(m)))

\* the ordered list of recognised commands
PrefixTable ==
    << << ShowStatsPrefix, "show_stats" >>,
       << ReloadPrefix, "reload" >>,
       << ShowConfigPrefix, "show_config" >>,
       << ShowDatabasesPrefix, "show_databases" >>,
       << SetPrefix, "ignore_set" >> >>

Matches(q) == { i \in 1..Len(PrefixTable) : StartsWith(q, PrefixTable[i][1]) }

FirstMatch(q) ==
    IF Matches(q) = {} THEN "error_response"
    ELSE PrefixTable[CHOOSE i \in Matches(q) : \A j \in Matches(q) : i <= j][2]

\* the handler a position belongs to
HandlerOf(p) ==
    CASE p \in {"show_stats"} -> "show_stats"
      [] p \in {"reload", "reload_reply"} -> "reload"
      [] p \in {"show_config", "show_config_rows"} -> "show_config"
      [] p \in {"show_databases", "show_databases_rows"} -> "show_databases"
      [] p \in {"ignore_set"} -> "ignore_set"
      [] p \in {"error_response"} -> "error_response"
      [] OTHER -> "none"

Has(w, t) == \E i \in 1..Len(w) : w[i].t = t
Count(w, t) == Cardinality({ i \in 1..Len(w) : w[i].t = t })

ValidFiles == { f \in Files : f.valid }

\* C1: every byte sequence handed to the decode of handle_admin yields a
\* query text or a defined error; none ends in a panic.
C1_DecodeTotal ==
    \A c \in Conns : Handled(c) => Decoded[msg[c]].kind # "panic"

\* C2: a show_databases that has taken its config snapshot holds a pool and
\* a snapshot of one and the same version, and every shard index of the
\* pool is a key of the snapshot's shard map.
C2_OneVersion ==
    \A c \in Conns :
        pc[c] = "show_databases_rows" =>
            /\ hpool[c].ver = local[c].ver
            /\ ~MissingShard(hpool[c], local[c])

\* cfg is, in all its fields, the Config parsed from one file
Unmixed(cfg) == \E f \in ValidFiles : cfg = MkConfig(f, cfg.ver)

ReaderHolds(c) == pc[c] \in {"show_config_rows", "show_databases_rows", "reload_reply"}

ReadsCurrent(c) ==
    /\ pc[c] \in {"show_config", "show_databases"}
    /\ pc'[c] \in {"show_config_rows", "show_databases_rows"}
    => local'[c].ver >= okVer /\ local'[c] = config

\* C3: a snapshot held by a reader is, in all its fields, the Config parsed
\* from one file (never a mixture of two), and a read made after a RELOAD
\* returned Ok (by show_config, show_databases or reload itself) yields the
\* snapshot that RELOAD published or a later one.
C3_AtomicReload ==
    /\ [](\A c \in Conns : ReaderHolds(c) => Unmixed(local[c]))
    /\ [](okVer <= config.ver)
    /\ [](\A c \in Conns :
             pc[c] = "reload_reply" => local[c].ver >= 1 /\ config.ver >= local[c].ver)
    /\ [][\A c \in Conns : ReadsCurrent(c)]_vars

C3_Witness ==
    \E c, d \in Conns :
        /\ pc[c] = "show_config_rows" /\ local[c].ver = 0
        /\ pc[d] = "show_databases_rows" /\ local[d].ver = 1
        /\ local[d].shards # local[c].shards
        /\ okVer = 1

\* reload on connection c returns without reaching its reply
ReloadFails(c) == pc[c] = "reload" /\ pc'[c] = "idle"

\* C4: the step in which reload's parse fails leaves the current snapshot
\* and the topology as they were, returns the error to the caller of
\* handle_admin, and has written no byte to the client.

C4_FailedReload ==
    [][\A c \in Conns :
          ReloadFails(c) =>
              /\ config' = config
              /\ pool' = pool
              /\ result'[c] = "ConfigError"
              /\ wire'[c] = << >>
              /\ writes'[c] = 0]_vars

C4_Witness ==
    \E c \in Conns :
        /\ result[c] = "ConfigError"
        /\ wire[c] = << >>
        /\ config.ver = 1
        /\ config = MkConfig(FileB, 1)

\* a response of the form: zero or more groups of one RowDescription and
\* its DataRows, one CommandComplete, one ReadyForQuery in idle status
WellFormedTurn(w) ==
    /\ Len(w) >= 2
    /\ w[Len(w)].t = "ReadyForQuery" /\ w[Len(w)].status = "I"
    /\ w[Len(w) - 1].t = "CommandComplete"
    /\ \A i \in 1..(Len(w) - 2) : w[i].t \in {"RowDescription", "DataRow"}
    /\ Len(w) > 2 => w[1].t = "RowDescription"

\* one ErrorResponse, then one ReadyForQuery in idle status
ErrorTurn(w) ==
    /\ Len(w) = 2
    /\ w[1].t = "ErrorResponse"
    /\ w[2].t = "ReadyForQuery" /\ w[2].status = "I"

\* the handler dispatched for msg[c] has ended
Ended(c) == result[c] # "none" /\ WellFramed(msg[c])

\* C5 as stated: every handler, whatever its outcome, ends its exchange
\* with groups of RowDescription and DataRows, then exactly one
\* CommandComplete, then exactly one ReadyForQuery('I').
C5_EveryHandlerCompletes ==
    \A c \in Conns : Ended(c) => WellFormedTurn(wire[c])

\* C5 amended: a handler of a recognised command that returns Ok has
\* written groups of RowDescription and DataRows, one CommandComplete and
\* one ReadyForQuery('I'), nothing after; the unsupported-query path has
\* written one ErrorResponse and one ReadyForQuery('I') and no
\* CommandComplete; a handler that does not return Ok (reload,
\* show_databases) has written nothing.
C5_ResponseShapes ==
    \A c \in Conns :
        Ended(c) =>
            LET h == FirstMatch(QueryText(msg[c]))
            IN  \/ /\ result[c] = "Ok"
                   /\ h # "error_response"
                   /\ WellFormedTurn(wire[c])
                   /\ writes[c] = 1
                \/ /\ result[c] = "Ok"
                   /\ h = "error_response"
                   /\ ErrorTurn(wire[c])
                \/ /\ result[c] # "Ok"
                   /\ h \in {"reload", "show_databases"}
                   /\ wire[c] = << >>

C5_Witness ==
    \E c \in Conns :
        /\ result[c] = "Ok"
        /\ Count(wire[c], "DataRow") = 5
        /\ WellFormedTurn(wire[c])

\* a well-framed query whose text starts with none of the commands
Unsupported(m) == WellFramed(m) /\ Matches(QueryText(m)) = {}

\* C6: a well-framed query whose text starts with none of the recognised
\* commands is answered with exactly one ErrorResponse and one
\* ReadyForQuery('I'), handle_admin returns Ok, and the connection is
\* awaiting the next query.

C6_UnsupportedQuery ==
    \A c \in Conns :
        Handled(c) /\ Unsupported(msg[c]) =>
            \/ conn[c] = "handling" /\ pc[c] = "error_response"
            \/ /\ result[c] = "Ok"
               /\ ErrorTurn(wire[c])
               /\ wire[c][1].message = UnsupportedMessage
               /\ writes[c] = 1
               /\ conn[c] = "awaiting"

C6_Witness ==
    \E c \in Conns :
        /\ msg[c] = Frame(Str(<< "S", "E", "L", "E", "C", "T", " ", "1" >>))
        /\ result[c] = "Ok"
        /\ ErrorTurn(wire[c])
        /\ conn[c] = "awaiting"

ReloadLeaves(c) == pc[c] = "reload" /\ pc'[c] # "reload"

\* C7 amended: a failed RELOAD is not recovered in the handler: reload
\* returns the error of parse to the caller of handle_admin, no
\* ErrorResponse (no byte) is written, and the connection does not go back
\* to awaiting a query; a call of handle_admin that returns an error or
\* aborts never leaves the connection awaiting.

C8_PrefixDispatch ==
    \A c \in Conns :
        conn[c] = "handling" /\ WellFramed(msg[c]) =>
            HandlerOf(pc[c]) = FirstMatch(QueryText(msg[c]))

C8_Witness ==
    \E c \in Conns :
        /\ conn[c] = "handling"
        /\ msg[c] = Frame(Str(<< "r", "e", "l", "o", "a", "d", ";" >>))
        /\ pc[c] = "reload"

\* a message whose first byte is not the Simple Query tag
BadTag(m) == Len(m) >= 1 /\ m[1] # TagQ

\* C9: a message whose first byte is not 'Q' fails with ProtocolSyncError
\* whatever follows the byte (the length is not read), enters no handler,
\* writes nothing, and leaves config, topology and stats as they were.

C9_BadTag ==
    /\ [](\A c \in Conns :
             Handled(c) /\ BadTag(msg[c]) =>
                 /\ result[c] = "ProtocolSyncError"
                 /\ conn[c] # "handling"
                 /\ pc[c] = "idle"
                 /\ wire[c] = << >>
                 /\ writes[c] = 0)
    /\ [][\A c \in Conns :
             conn[c] = "awaiting" /\ conn'[c] # "awaiting" /\ BadTag(msg'[c]) =>
                 config' = config /\ pool' = pool /\ stats' = stats]_vars

C9_Witness ==
    \E c \in Conns :
        /\ msg[c] = << 88 >>
        /\ result[c] = "ProtocolSyncError"
        /\ config.ver = 1

\* a well-framed query whose payload is not validly encoded text
InvalidText(m) == WellFramed(m) /\ ~ValidUtf8(Payload(m))

\* C10 as stated: a 'Q' frame whose payload is not validly encoded text
\* fails the decode and no handler is dispatched for it.

SetQuery(m) == WellFramed(m) /\ StartsWith(QueryText(m), SetPrefix)

\* a step of the exchange of a SET query on connection c: handle_admin is
\* entered with it, or its handler returns
SetExchangeStep(c) ==
    /\ SetQuery(msg'[c])
    /\ conn'[c] # conn[c] \/ result'[c] # result[c]

\* C11: a query whose uppercased text starts with "SET " is answered with
\* CommandComplete("SET") then ReadyForQuery('I') and Ok, whatever follows
\* the prefix, and no step of its exchange changes the config snapshot,
\* the topology or the stats.
C11_SetAbsorbed ==
    /\ [](\A c \in Conns :
            Handled(c) /\ SetQuery(msg[c]) =>
                \/ conn[c] = "handling" /\ pc[c] = "ignore_set"
                \/ /\ result[c] = "Ok"
                   /\ wire[c] = << CommandComplete("SET"), ReadyForQuery >>
                   /\ ReadyForQuery.status = "I"
                   /\ conn[c] = "awaiting")
    /\ [][\A c \in Conns :
            SetExchangeStep(c) => UNCHANGED << config, pool, stats >>]_vars

\* "SET " followed by a non-ASCII character was answered after a reload
\* had replaced the configuration
C11_Witness ==
    \E c \in Conns :
        /\ msg[c] = Frame(Str(<< "S", "E", "T", " " >>) \o << 195, 169 >>)
        /\ result[c] = "Ok"
        /\ wire[c] = CustomProtocolResponseOk("SET")
        /\ config.ver = 1

\* the (shard, server) pairs of a topology, by shard index and then by
\* position in the shard's server list, both 0-based
RECURSIVE PairsFrom(_, _)
PairsFrom(p, shard) ==
    IF shard >= Len(p.shards) THEN << >>
    ELSE [j \in 1..Len(p.shards[shard + 1]) |-> << shard, j - 1 >>]
         \o PairsFrom(p, shard + 1)
Pairs(p) == PairsFrom(p, 0)

\* the DataRows of a response, in the order written
DataRows(w) ==
    LET idx == { i \in 1..Len(w) : w[i].t = "DataRow" }
    IN  [r \in 1..Cardinality(idx) |->
            w[CHOOSE i \in idx : Cardinality({ k \in idx : k < i }) = r - 1].values]

\* the replicas of a shard that stand before position `server` in its list
ReplicasBefore(p, shard, server) ==
    { k \in 1..server : p.shards[shard + 1][k].role = Replica }
ReplicasOf(p, shard) == ReplicasBefore(p, shard, Len(p.shards[shard + 1]))

PrimaryName(shard) == "shard_" \o ToString(shard) \o "_primary"
ReplicaName(shard, j) == "shard_" \o ToString(shard) \o "_replica_" \o ToString(j)

\* the name at a list position when the names of a shard are laid out as
\* primary, replica_0, ..., replica_{k-1}
ClaimedName(p, shard, server) ==
    (<< PrimaryName(shard) >>
     \o [j \in 1..Cardinality(ReplicasOf(p, shard)) |-> ReplicaName(shard, j - 1)])
    [server + 1]

\* the name at a list position when a Primary is named shard_i_primary
\* and the j-th Replica of the list is named shard_i_replica_j
ListOrderName(p, shard, server) ==
    IF p.shards[shard + 1][server + 1].role = Primary
    THEN PrimaryName(shard)
    ELSE ReplicaName(shard, Cardinality(ReplicasBefore(p, shard, server)))

\* show_databases on connection c writes its response in this step
DatabasesWritten(c) == pc[c] = "show_databases_rows" /\ result'[c] = "Ok"

\* show_databases on connection c ends in this step, with or without a
\* response
DatabasesEnds(c) == pc[c] = "show_databases_rows" /\ pc'[c] # "show_databases_rows"

\* C12 as stated: the names of every shard come out as shard_i_primary,
\* shard_i_replica_0, ..., shard_i_replica_{k-1}, in that order.
C12_PrimaryFirst ==
    [][\A c \in Conns :
          DatabasesWritten(c) =>
              LET rows == DataRows(wire'[c])
                  prs == Pairs(hpool[c])
              IN  /\ Len(rows) = Len(prs)
                  /\ \A r \in 1..Len(rows) :
                         rows[r][1] = ClaimedName(hpool[c], prs[r][1], prs[r][2])]_vars

\* C12 amended: the names come out in the order of the shard's server
\* list; the Primary is named shard_i_primary at its own position and the
\* j-th Replica of the list (counting only Replicas, from 0) is named
\* shard_i_replica_j.  The names are a function of the topology alone,
\* and writing them changes neither the topology nor the config.  A
\* show_databases that does not write these names has aborted and has
\* written nothing.
C12_ListOrderNames ==
    [][\A c \in Conns :
          DatabasesEnds(c) =>
              LET rows == DataRows(wire'[c])
                  prs == Pairs(hpool[c])
              IN  /\ UNCHANGED << config, pool >>
                  /\ \/ /\ result'[c] = "Ok"
                        /\ Len(rows) = Len(prs)
                        /\ \A r \in 1..Len(rows) :
                               rows[r][1] = ListOrderName(hpool[c], prs[r][1], prs[r][2])
                     \/ /\ result'[c] = "panic"
                        /\ wire'[c] = << >>]_vars

\* a response for the topology whose shard 1 lists a Replica before its
\* Primary
C12_Witness ==
    \E c \in Conns :
        /\ result[c] = "Ok"
        /\ Len(DataRows(wire[c])) = 5
        /\ [r \in 1..5 |-> DataRows(wire[c])[r][1]] =
              << "shard_0_primary", "shard_0_replica_0",
                 "shard_1_replica_0", "shard_1_primary", "shard_1_replica_1" >>

\* show_config on connection c writes its response in this step
ConfigWritten(c) == pc[c] = "show_config_rows" /\ result'[c] = "Ok"

\* C13: for every key of the flattened config snapshot SHOW CONFIG writes
\* exactly one row; its changeable column is "no" if and only if the key
\* is host, port or connect_timeout and "yes" otherwise; its default
\* column is "-".
C13_Changeable ==
    [][\A c \in Conns :
          ConfigWritten(c) =>
              LET rows == DataRows(wire'[c])
                  map == Flatten(local[c])
              IN  /\ \A k \in DOMAIN map :
                         Cardinality({ r \in 1..Len(rows) : rows[r][1] = k }) = 1
                  /\ \A r \in 1..Len(rows) :
                         /\ rows[r][1] \in DOMAIN map
                         /\ rows[r][2] = map[rows[r][1]]
                         /\ rows[r][3] = "-"
                         /\ rows[r][4] \in {"yes", "no"}
                         /\ rows[r][4] = "no" <=>
                               rows[r][1] \in {"host", "port", "connect_timeout"}]_vars

\* the configuration loaded by a reload was shown, pool_size first
C13_Witness ==
    \E c \in Conns :
        /\ result[c] = "Ok"
        /\ Len(DataRows(wire[c])) = 4
        /\ DataRows(wire[c])[1] = << "pool_size", "20", "-", "yes" >>
        /\ \E r \in 2..4 : DataRows(wire[c])[r] = << "connect_timeout", "1000", "-", "no" >>

\* show_stats on connection c ends in this step
StatsEnds(c) == pc[c] = "show_stats" /\ pc'[c] # "show_stats"

\* C14: for every stats snapshot, the empty one included, SHOW STATS
\* returns Ok with one row that reports, under each counter column, "0"
\* when the snapshot has no counter of that name and the stored value
\* when it has.
C14_StatsDefault ==
    [][\A c \in Conns :
          StatsEnds(c) =>
              /\ result'[c] = "Ok"
              /\ Len(DataRows(wire'[c])) = 1
              /\ LET cols == wire'[c][1].columns
                     row == DataRows(wire'[c])[1]
                 IN  /\ Len(row) = Len(cols)
                     /\ \A i \in 2..Len(cols) :
                            /\ cols[i][1] \in DOMAIN stats => row[i] = ToString(stats[cols[i][1]])
                            /\ cols[i][1] \notin DOMAIN stats => row[i] = "0"]_vars

\* a row with a stored counter and a defaulted one
C14_Witness ==
    \E c \in Conns :
        /\ result[c] = "Ok"
        /\ Len(wire[c]) = 4
        /\ wire[c][2].t = "DataRow"
        /\ wire[c][1].columns[2][1] = "total_xact_count" /\ wire[c][2].values[2] = "7"
        /\ wire[c][1].columns[4][1] = "total_received" /\ wire[c][2].values[4] = "0"

\* the row for the empty snapshot
EmptySnapshotShown ==
    \E c \in Conns :
        /\ result[c] = "Ok"
        /\ Len(wire[c]) = 4
        /\ wire[c][2].t = "DataRow"
        /\ \A i \in 2..15 : wire[c][2].values[i] = "0"

\* nothing has been sent on connection c while its handler is running
SilentWhileHandling(c) ==
    conn[c] = "handling" => wire[c] = << >> /\ writes[c] = 0

\* C15 as stated: nothing is on the wire while a handler runs, and every
\* exchange that reached a handler has ended with exactly one write.
C15_ExactlyOneWrite ==
    \A c \in Conns :
        /\ SilentWhileHandling(c)
        /\ Ended(c) => writes[c] = 1

\* C15 amended: nothing is on the wire while a handler runs; a handler
\* that returns Ok has sent its whole response, ReadyForQuery last, in
\* exactly one write; a handler that fails (reload on a parse error,
\* show_databases on a missing shard key) has performed no write and has
\* sent nothing.
C15_SingleWrite ==
    \A c \in Conns :
        /\ SilentWhileHandling(c)
        /\ Ended(c) /\ result[c] = "Ok" =>
              /\ writes[c] = 1
              /\ wire[c] # << >>
              /\ wire[c][Len(wire[c])] = ReadyForQuery
              /\ Count(wire[c], "ReadyForQuery") = 1
        /\ Ended(c) /\ result[c] # "Ok" =>
              /\ writes[c] = 0
              /\ wire[c] = << >>

\* one connection's tabular response is out in one write, the other's
\* handler is still running
C15_Witness ==
    \E c, d \in Conns :
        /\ result[c] = "Ok" /\ writes[c] = 1 /\ Len(DataRows(wire[c])) = 5
        /\ conn[d] = "handling" /\ pc[d] = "show_databases_rows"
        /\ wire[d] = << >>

\* C16: SHOW DATABASES emits exactly one DataRow per (shard, server) pair
\* of the topology it was given, by ascending shard index and then by
\* server list position, so that the row count is the sum of the server
\* counts of the shards, and min_pool_size, reserve_pool, paused and
\* disabled are "0" in every row.
C16_RowPerServer ==
    [][\A c \in Conns :
          DatabasesEnds(c) =>
              LET rows == DataRows(wire'[c])
                  prs == Pairs(hpool[c])
              IN  /\ Len(rows) = Len(prs)
                  /\ \A r \in 1..Len(rows) :
                         /\ rows[r][2] = hpool[c].shards[prs[r][1] + 1][prs[r][2] + 1].host
                         /\ rows[r][7] = "0" /\ rows[r][8] = "0"
                         /\ rows[r][12] = "0" /\ rows[r][13] = "0"]_vars

\* the handlers whose response does not depend on config, topology or stats
FixedReply == {"ignore_set", "error_response", "reload"}

\* C17: a connection keeps nothing from one exchange to the next.  Two
\* connections with different pasts that are handed the same query run
\* the same handler, and get the same bytes when the response does not
\* depend on config, topology or stats; a connection awaiting a query
\* holds no pool handle, no config snapshot and no handler position; and
\* every exchange that returned Ok left the connection awaiting a query.
C17_Stateless ==
    /\ \A c \in Conns :
          /\ conn[c] = "awaiting" =>
                pc[c] = "idle" /\ hpool[c] = NoPool /\ local[c] = NoConfig
          /\ result[c] = "Ok" => conn[c] = "awaiting"
          /\ conn[c] \in {"awaiting", "handling", "closed", "crashed"}
    /\ \A c, d \in Conns :
          msg[c] = msg[d] =>
              /\ conn[c] = "handling" /\ conn[d] = "handling" =>
                    HandlerOf(pc[c]) = HandlerOf(pc[d])
              /\ conn[c] = "handling" /\ result[d] = "Ok" /\ wire[d] # << >> =>
                    (HandlerOf(pc[c]) \in FixedReply
                       <=> wire[d] \in { CustomProtocolResponseOk("SET"),
                                         ErrorResponseBytes(UnsupportedMessage),
                                         ReloadResponse })
              /\ result[c] = "Ok" /\ result[d] = "Ok"
                 /\ FirstMatch(QueryText(msg[c])) \in FixedReply =>
                    wire[c] = wire[d]

\* both connections are running SHOW STATS on the same message after two
\* reloads were handled, so at least one of them has earlier exchanges
\* behind it
C17_Witness ==
    \E c, d \in Conns :
        /\ c # d
        /\ config.ver = 2
        /\ msg[c] = msg[d]
        /\ pc[c] = "show_stats" /\ pc[d] = "show_stats"

\* the parse of a RELOAD on connection c succeeds in this step
ReloadStores(c) == pc[c] = "reload" /\ pc'[c] = "reload_reply"

\* this step belongs to the task of some connection
ConnectionStep ==
    \E c \in Conns :
        conn'[c] # conn[c] \/ pc'[c] # pc[c] \/ result'[c] # result[c] \/ msg'[c] # msg[c]

\* C18: the config snapshot and the topology change only in a step in
\* which a RELOAD's parse succeeds, and no step of a connection changes
\* the stats; so the config differs from the initial one only after a
\* RELOAD has succeeded, and SHOW STATS, SHOW CONFIG, SHOW DATABASES, SET,
\* unsupported queries, failed RELOADs and failed decodes leave all three
\* as they were.
C18_Frame ==
    /\ [][/\ (config' # config \/ pool' # pool) => \E c \in Conns : ReloadStores(c)
          /\ ConnectionStep => stats' = stats]_vars
    /\ [](config # MkConfig(FileA, 0) =>
            okVer > 0 \/ \E c \in Conns : pc[c] = "reload_reply")

\* a decode has failed after a successful RELOAD: the reloaded
\* configuration is still the current one
C18_Witness ==
    \E c \in Conns :
        /\ result[c] = "panic"
        /\ ~WellFramed(msg[c])
        /\ okVer = 1
        /\ config = MkConfig(FileB, 1)
        /\ pool = Topology(MkConfig(FileB, 1))

\* every order in which the five prefix checks could be made
PrefixOrders == Orders(1..Len(PrefixTable))

\* the handler chosen for text q when the checks are made in order o
FirstMatchIn(o, q) ==
    IF Matches(q) = {} THEN "error_response"
    ELSE PrefixTable[o[CHOOSE k \in 1..Len(PrefixTable) :
                          /\ o[k] \in Matches(q)
                          /\ \A j \in 1..(k - 1) : o[j] \notin Matches(q)]][2]

\* C19: the five prefixes are mutually exclusive.  None of them starts
\* with another, so no text starts with two of them; no query text handed
\* to the dispatcher starts with more than one, and the handler it is
\* given is the one chosen under every ordering of the five checks.
C19_ExclusivePrefixes ==
    /\ \A i, j \in 1..Len(PrefixTable) :
          i # j => ~StartsWith(PrefixTable[i][1], PrefixTable[j][1])
    /\ \A c \in Conns :
          Handled(c) /\ WellFramed(msg[c]) =>
              /\ Cardinality(Matches(QueryText(msg[c]))) <= 1
              /\ conn[c] = "handling" =>
                    \A o \in PrefixOrders :
                        FirstMatchIn(o, QueryText(msg[c])) = HandlerOf(pc[c])

\* a text that holds two command words, "RELOAD SET ", is in the reload
\* handler
C19_Witness ==
    \E c \in Conns :
        /\ msg[c] = Frame(Str(<< "R", "E", "L", "O", "A", "D", " ", "S", "E", "T", " " >>))
        /\ conn[c] = "handling"
        /\ pc[c] = "reload"
        /\ Matches(QueryText(msg[c])) = {2}

\* the column names a response declares
ColumnNames(w) == [i \in 1..Len(w[1].columns) |-> w[1].columns[i][1]]

\* the position of a column name in a response's RowDescription, 0 if it
\* is not declared
ColumnAt(w, name) ==
    IF \E i \in 1..Len(w[1].columns) : w[1].columns[i][1] = name
    THEN CHOOSE i \in 1..Len(w[1].columns) : w[1].columns[i][1] = name
    ELSE 0

Tabular == {"show_databases", "show_config", "show_stats"}

\* the number of columns each tabular command declares
Declared(h) ==
    CASE h = "show_databases" -> 13
      [] h = "show_config" -> 4
      [] h = "show_stats" -> 15

PortTexts == {"5432"}
PoolModes == {"transaction", "session"}

\* C20: in every tabular response each DataRow has exactly as many values
\* as the RowDescription before it declares columns, 13 for SHOW
\* DATABASES, 4 for SHOW CONFIG and 15 for SHOW STATS, and the values
\* stand under their own columns.
C20_RowWidth ==
    \A c \in Conns :
        Ended(c) /\ result[c] = "Ok"
        /\ FirstMatch(QueryText(msg[c])) \in Tabular =>
            LET w == wire[c]
                h == FirstMatch(QueryText(msg[c]))
                rows == DataRows(w)
            IN  /\ w[1].t = "RowDescription"
                /\ Count(w, "RowDescription") = 1
                /\ Len(w[1].columns) = Declared(h)
                /\ Len(rows) >= 1
                /\ \A r \in 1..Len(rows) : Len(rows[r]) = Len(w[1].columns)
                /\ h = "show_databases" =>
                      \A r \in 1..Len(rows) :
                          /\ StartsWith(rows[r][ColumnAt(w, "name")], "shard_")
                          /\ rows[r][ColumnAt(w, "port")] \in PortTexts
                          /\ rows[r][ColumnAt(w, "pool_mode")] \in PoolModes
                          /\ rows[r][ColumnAt(w, "current_connections")]
                                \in { ToString(n) : n \in 0..MaxOpen }
                          /\ \A name \in {"min_pool_size", "reserve_pool", "paused", "disabled"} :
                                rows[r][ColumnAt(w, name)] = "0"
                          /\ rows[r][ColumnAt(w, "pool_size")]
                                = rows[r][ColumnAt(w, "max_connections")]
                /\ h = "show_config" =>
                      \A r \in 1..Len(rows) :
                          /\ rows[r][ColumnAt(w, "key")]
                                \in {"host", "port", "connect_timeout", "pool_size"}
                          /\ rows[r][ColumnAt(w, "default")] = "-"
                          /\ rows[r][ColumnAt(w, "changeable")] \in {"yes", "no"}
                /\ h = "show_stats" =>
                      /\ rows[1][ColumnAt(w, "database")] = "all shards"
                      /\ rows[1][ColumnAt(w, "total_query_count")] \in {"0", "12"}
                      /\ rows[1][ColumnAt(w, "total_xact_count")] \in {"0", "7"}

\* a SHOW DATABASES response of five rows of thirteen values
C20_Witness ==
    \E c \in Conns :
        /\ result[c] = "Ok"
        /\ Len(wire[c]) = 8
        /\ Len(wire[c][1].columns) = 13
        /\ \A i \in 2..6 : wire[c][i].t = "DataRow" /\ Len(wire[c][i].values) = 13

====
